---- MODULE Spec2Model ----
(***************************************************************************)
(* Model of parasol: Solr schema reconciliation (parasol/schema.py), the   *)
(* update handler client (parasol/solr/update.py) and bulk indexing        *)
(* (parasol/indexing.py).                                                  *)
(*                                                                         *)
(* Python strings whose content the code inspects (field names) are        *)
(* modelled as sequences of one-character strings, so that 'id' is         *)
(* <<"i","d">> and startswith('_') is a test on the first element.         *)
(* Python dicts are modelled as functions whose DOMAIN is the key set.     *)
(***************************************************************************)
EXTENDS Integers, Sequences, FiniteSets, TLC

----------------------------------------------------------------------------
(* Bounds of the model *)

\* most attributes declared on the schema class
MaxDeclared == 3
\* most fields (or field types) the server holds initially
MaxRemote == 3
\* most fields, and most field types, of a schema class that declares both,
\* and of the server it is reconciled with
MaxMixedFields == 2
MaxMixedTypes == 1
\* most requests an Update client makes in one behaviour
MaxRequests == 3
\* most items handed to index_items, and the largest chunk size
MaxItems == 4
MaxChunk == 3
\* most schema classes defined in one system
MaxSubclasses == 2

\* names a field may have: the literal 'id', an underscore name, plain names,
\* and a name that holds an underscore but does not begin with one
FieldOrder == << <<"i","d">>, <<"_","v">>, <<"t">>, <<"a","_">> >>

\* names a field type may have
TypeOrder == << <<"t","x">>, <<"e","n">>, <<"n","g">> >>

----------------------------------------------------------------------------
(* Generic helpers *)

Range(s) == { s[k] : k \in DOMAIN s }

\* sequences over S without repetition, of length at most n
Arrangements(S, n) ==
    { s \in UNION { [1..k -> S] : k \in 0..n } :
        \A a, b \in DOMAIN s : a # b => s[a] # s[b] }

FieldPool == Range(FieldOrder)
TypePool == Range(TypeOrder)

\* the arrangements of at most n elements of the sequence pool that keep its order
SubSeqs(pool, n) ==
    { s \in Arrangements(Range(pool), n) :
        \A a, b \in DOMAIN s : a < b =>
            \E i, j \in DOMAIN pool : i < j /\ pool[i] = s[a] /\ pool[j] = s[b] }

\* dict operations
DictSet(d, k, v) == [ x \in DOMAIN d \cup {k} |-> IF x = k THEN v ELSE d[x] ]
DictDel(d, k) == [ x \in DOMAIN d \ {k} |-> d[x] ]

\* number of positions of seq s that hold a call of operation op for name
CountCalls(s, op, name) ==
    Cardinality({ k \in DOMAIN s : s[k].op = op /\ s[k].name = name })

----------------------------------------------------------------------------
(* parasol/schema.py: descriptors *)

\* SolrField.__init__
SolrField(fieldtype, required, multivalued) ==
    [ kind |-> "SolrField", type |-> fieldtype,
      required |-> required, multivalued |-> multivalued ]

\* SolrField.__get__
SolrFieldGet(self) ==
    [ type |-> self.type, required |-> self.required,
      multiValued |-> self.multivalued ]

\* a setter that stores the value as the field's type
SolrFieldSetStores(self, val) ==
    [ raised |-> "none", self |-> [ self EXCEPT !.type = val ] ]

\* SolrField.__set__: what it raises, and the descriptor afterwards
SolrFieldSet(self, val) == [ raised |-> "AttributeError", self |-> self ]

\* SolrAnalyzer.as_solr_config
AsSolrConfig(analyzer) ==
    [ tokenizer |-> [ class |-> analyzer.tokenizer ],
      filters |-> analyzer.filters ]

\* SolrFieldType.__init__
SolrFieldType(field_class, analyzer) ==
    [ kind |-> "SolrFieldType", field_class |-> field_class,
      analyzer |-> analyzer ]

\* SolrFieldType.__get__
SolrFieldTypeGet(self) ==
    [ class |-> self.field_class, analyzer |-> AsSolrConfig(self.analyzer) ]

\* SolrFieldType.__set__: what it raises, and the descriptor afterwards
SolrFieldTypeSet(self, val) == [ raised |-> "AttributeError", self |-> self ]

\* the analyzer of the field types a schema class of the model declares
StandardAnalyzer ==
    [ tokenizer |-> "solr.StandardTokenizerFactory",
      filters |-> << [ class |-> "solr.LowerCaseFilterFactory" ] >> ]

\* the descriptor declared under a field name (one declaration per name)
DeclaredField(name) ==
    IF name[1] = "_" \/ name = <<"i","d">>
    THEN SolrField("string", FALSE, FALSE)
    ELSE SolrField("text_en", TRUE, TRUE)

\* the descriptor declared under a field type name
DeclaredType(name) == SolrFieldType("solr.TextField", StandardAnalyzer)

----------------------------------------------------------------------------
(* State *)

VARIABLES
    cls_dict,                \* SolrSchema subclass __dict__: <<[name, attr]>> in declaration order
    remote_fields,           \* server schema: field names, in listing order
    remote_types,            \* server schema: field type definitions (dicts), in listing order
    op,                      \* the classmethod being run, or "none"
    pc,                      \* position in it
    current_fields,          \* configure_solr_fields: local current_fields
    configured_field_names,  \* configure_solr_fields: local configured_field_names
    current_field_types,     \* configure_solr_fieldtypes: local current_field_types (dict)
    configured_field_types,  \* configure_solr_fieldtypes: local configured_field_types
    idx,                     \* position of the running for loop
    stats,                   \* local stats
    calls,                   \* remote schema calls issued by the current run, in order
    outcome,                 \* how the last run ended: "none", "returned", "raised"
    last_run,                \* <<the record of the last finished run>>, or <<>>
    initial_fields,          \* remote field names before the first run
    initial_types            \* remote field type definitions before the first run

VARIABLES
    params,                  \* Update: self.params
    requests,                \* the calls of client.make_request, in order
    items,                   \* index_items: the input stream
    index_chunk_size,        \* Indexable.index_chunk_size
    progbar,                 \* index_items: whether a progress bar was passed
    ipc,                     \* index_items: position ("idle", "chunk", "returned", "raised")
    consumed,                \* index_items: items read from the stream so far
    count,                   \* index_items: local count
    progress                 \* the calls of progbar.update, in order

VARIABLES
    subclasses,              \* SolrSchema.__subclasses__(): the schema classes, in definition order
    config,                  \* <<the outcome of the last get_configuration call>>, or <<>>
    set_attempt              \* <<the outcome of the last assignment to a descriptor>>, or <<>>

VARIABLES
    solr_docs,               \* the documents in the server's index
    item_call                \* <<the last call of a record's index or remove_from_index>>, or <<>>

registryVars == << subclasses, config, set_attempt >>

recordVars == << solr_docs, item_call >>

clientVars ==
    << params, requests, items, index_chunk_size, progbar, ipc, consumed,
       count, progress >>

schemaVars ==
    << cls_dict, remote_fields, remote_types, op, pc, current_fields,
       configured_field_names, current_field_types, configured_field_types,
       idx, stats, calls, outcome, last_run, initial_fields, initial_types >>

vars == << schemaVars, clientVars, registryVars, recordVars >>

\* AttrDefault(int, {}): every counter reads as 0 until incremented
NewStats == [ added |-> 0, replaced |-> 0, updated |-> 0, deleted |-> 0 ]

\* the increment lands on the counter of the other branch
StatsIncrAdded(st, key) == [ st EXCEPT !["added"] = @ + 1 ]

\* stats.<key> += 1
StatsIncr(st, key) == [ st EXCEPT ![key] = @ + 1 ]

----------------------------------------------------------------------------
(* parasol/schema.py: SolrSchema introspection *)

\* isinstance(attr_type, SolrField)
IsSolrField(attr) == attr.kind = "SolrField"

\* isinstance(attr_type, SolrFieldType)
IsSolrFieldType(attr) == attr.kind = "SolrFieldType"

\* the names collected in the reverse of declaration order
RECURSIVE GetFieldNamesReversed(_)
GetFieldNamesReversed(d) ==
    IF d = <<>> THEN <<>>
    ELSE IF d[Len(d)].attr.kind = "SolrField"
         THEN << d[Len(d)].name >> \o GetFieldNamesReversed(SubSeq(d, 1, Len(d) - 1))
         ELSE GetFieldNamesReversed(SubSeq(d, 1, Len(d) - 1))

\* SolrSchema.get_field_names
RECURSIVE GetFieldNames(_)
GetFieldNames(d) ==
    IF d = <<>> THEN <<>>
    ELSE IF IsSolrField(Head(d).attr)
         THEN <<Head(d).name>> \o GetFieldNames(Tail(d))
         ELSE GetFieldNames(Tail(d))

\* SolrSchema.get_field_types
RECURSIVE GetFieldTypes(_)
GetFieldTypes(d) ==
    IF d = <<>> THEN <<>>
    ELSE IF IsSolrFieldType(Head(d).attr)
         THEN <<Head(d).name>> \o GetFieldTypes(Tail(d))
         ELSE GetFieldTypes(Tail(d))

\* getattr(cls, name): the descriptor's __get__ value
GetAttr(d, name) ==
    LET e == CHOOSE x \in Range(d) : x.name = name
    IN  IF IsSolrField(e.attr) THEN SolrFieldGet(e.attr)
        ELSE SolrFieldTypeGet(e.attr)

\* raise Exception(message)
RaisedException(message) ==
    [ kind |-> "raised", error |-> "Exception", message |-> message, value |-> <<>> ]

\* return value
Returned(value) ==
    [ kind |-> "returned", error |-> "none", message |-> "", value |-> value ]

\* the first schema class whenever there is one
GetConfigurationFirst(subs) ==
    IF subs = <<>>
    THEN RaisedException("No Solr schema configuration found")
    ELSE Returned(subs[1])

\* SolrSchema.get_configuration, with subs the value of cls.__subclasses__()
GetConfiguration(subs) ==
    IF subs = <<>>
    THEN RaisedException("No Solr schema configuration found")
    ELSE IF Len(subs) > 1
    THEN RaisedException("Currently only one Solr schema configuration is supported")
    ELSE Returned(subs[1])

----------------------------------------------------------------------------
(* The remote schema API (solr.schema), a collaborator outside the sources. *)
(* A call either succeeds, fails before it is applied, or is applied and     *)
(* then fails (the reply is lost); a failure raises in the caller.           *)

MutationOutcomes == { "ok", "error", "applied_then_error" }
QueryOutcomes == { "ok", "error" }

\* the server carried the call out
Applied(o) == o \in { "ok", "applied_then_error" }

\* the failure swallowed
RaisesNever(o) == FALSE

\* the call raises in the caller; no call of the classmethods is inside a try
Raises(o) == o # "ok"

\* the definition a field has on the server before it is reconciled
ServerField(name) ==
    [ name |-> name, type |-> "string", required |-> FALSE, multiValued |-> FALSE ]

\* solr.schema.list_fields()
ListFields(fields) == fields

\* [field.name for field in ...]
FieldNamesOf(fields) == [ k \in DOMAIN fields |-> fields[k].name ]

\* solr.schema.add_field(name=.., **opts)
AddField(fields, name, opts) ==
    IF name \in Range(FieldNamesOf(fields)) THEN fields
    ELSE Append(fields, DictSet(opts, "name", name))

\* solr.schema.replace_field(name=.., **opts): the definition is overwritten in place
ReplaceField(fields, name, opts) ==
    [ k \in DOMAIN fields |->
        IF fields[k].name = name THEN DictSet(opts, "name", name) ELSE fields[k] ]

\* solr.schema.delete_field(name)
RECURSIVE DeleteField(_, _)
DeleteField(fields, name) ==
    IF fields = <<>> THEN <<>>
    ELSE IF Head(fields).name = name THEN DeleteField(Tail(fields), name)
         ELSE <<Head(fields)>> \o DeleteField(Tail(fields), name)

\* the definition a field type has on the server before it is reconciled
ServerType(name) ==
    [ name |-> name, class |-> "solr.StrField",
      analyzer |-> [ tokenizer |-> [ class |-> "solr.KeywordTokenizerFactory" ],
                     filters |-> <<>> ] ]

\* solr.schema.list_field_types()
ListFieldTypes(types) == types

\* solr.schema.add_field_type(**opts)
AddFieldType(types, opts) ==
    IF \E k \in DOMAIN types : types[k].name = opts.name THEN types
    ELSE Append(types, opts)

\* solr.schema.replace_field_type(**opts): the definition is overwritten in place
ReplaceFieldType(types, opts) ==
    [ k \in DOMAIN types |-> IF types[k].name = opts.name THEN opts ELSE types[k] ]

\* a call of the remote schema API, as logged
Call(o, name, kwargs, reply) ==
    [ op |-> o, name |-> name, kwargs |-> kwargs, reply |-> reply ]

NoName == <<>>
NoArgs == <<>>

----------------------------------------------------------------------------
(* Ending a run *)

\* the record kept of a finished run: what it returned (<<stats>>) or <<>> when
\* it raised, and the server's schema as the run left it
RunRecord(o, how, res, fields, types) ==
    [ op |-> o, outcome |-> how, result |-> res,
      fields |-> Range(fields), types |-> Range(types) ]

\* an exception leaves the classmethod: nothing is returned
Raise(fields, types) ==
    /\ pc' = "idle"
    /\ outcome' = "raised"
    /\ last_run' = << RunRecord(op, "raised", <<>>, fields, types) >>

----------------------------------------------------------------------------
(* parasol/schema.py: SolrSchema.configure_solr_fields *)

\* the membership test with its sense inverted
NotInCurrentInverted(field_name, current) == field_name \in Range(current)

\* field_name not in current_fields
NotInCurrent(field_name, current) == field_name \notin Range(current)

\* the test without its startswith('_') half
IsSpecialFieldIdOnly(field_name) == field_name = <<"i","d">>

\* field_name == 'id' or field_name.startswith('_')
IsSpecialField(field_name) ==
    \/ field_name = <<"i","d">>
    \/ (Len(field_name) > 0 /\ field_name[1] = "_")

\* every listed name taken as no longer declared
NotConfiguredAlways(field_name, configured) == TRUE

\* field_name not in configured_field_names
NotConfigured(field_name, configured) == field_name \notin Range(configured)

\* where control goes when the add/replace loop is over
AfterAddReplace(current) == IF Len(current) > 0 THEN "delete" ELSE "return"

\* where control goes once both listings are taken
AfterListFields(configured, current) ==
    IF Len(configured) > 0 THEN "add_replace" ELSE AfterAddReplace(current)

\* the classmethod is called
ConfigureSolrFields ==
    /\ pc = "idle"
    /\ op' = "configure_solr_fields"
    /\ pc' = "list_fields"
    /\ calls' = <<>>
    /\ outcome' = "none"
    /\ stats' = NewStats
    /\ idx' = 1
    /\ current_fields' = <<>>
    /\ configured_field_names' = <<>>
    /\ current_field_types' = <<>>
    /\ configured_field_types' = <<>>
    /\ UNCHANGED << cls_dict, remote_fields, remote_types, last_run,
                    initial_fields, initial_types >>
    /\ UNCHANGED << clientVars, registryVars, recordVars >>

\* lines 117-121: list the remote fields, read the declared names, new stats
FieldsList ==
    /\ op = "configure_solr_fields"
    /\ pc = "list_fields"
    /\ \E o \in QueryOutcomes :
       /\ calls' = Append(calls, Call("list_fields", NoName, NoArgs, o))
       /\ IF Raises(o)
          THEN /\ Raise(remote_fields, remote_types)
               /\ UNCHANGED << current_fields, configured_field_names, stats, idx >>
          ELSE /\ current_fields' = FieldNamesOf(ListFields(remote_fields))
               /\ configured_field_names' = GetFieldNames(cls_dict)
               /\ stats' = NewStats
               /\ idx' = 1
               /\ pc' = AfterListFields(GetFieldNames(cls_dict),
                                        FieldNamesOf(ListFields(remote_fields)))
               /\ UNCHANGED << outcome, last_run >>
    /\ UNCHANGED << cls_dict, remote_fields, remote_types, op, current_field_types,
                    configured_field_types, initial_fields, initial_types >>
    /\ UNCHANGED << clientVars, registryVars, recordVars >>

\* lines 123-133: one iteration of the loop over the declared names
FieldsAddReplace ==
    /\ op = "configure_solr_fields"
    /\ pc = "add_replace"
    /\ LET field_name == configured_field_names[idx]
           field_opts == GetAttr(cls_dict, field_name)
           adding == NotInCurrent(field_name, current_fields)
       IN  \E o \in MutationOutcomes :
             LET applied == IF adding
                            THEN AddField(remote_fields, field_name, field_opts)
                            ELSE ReplaceField(remote_fields, field_name, field_opts)
                 fields == IF Applied(o) THEN applied ELSE remote_fields
             IN  /\ calls' = Append(calls,
                        Call(IF adding THEN "add_field" ELSE "replace_field",
                             field_name, field_opts, o))
                 /\ remote_fields' = fields
                 /\ IF Raises(o)
                    THEN /\ Raise(fields, remote_types)
                         /\ UNCHANGED << stats, idx >>
                    ELSE /\ stats' = StatsIncr(stats,
                                IF adding THEN "added" ELSE "replaced")
                         /\ idx' = IF idx < Len(configured_field_names)
                                   THEN idx + 1 ELSE 1
                         /\ pc' = IF idx < Len(configured_field_names)
                                  THEN "add_replace"
                                  ELSE AfterAddReplace(current_fields)
                         /\ UNCHANGED << outcome, last_run >>
    /\ UNCHANGED << cls_dict, remote_types, op, current_fields,
                    configured_field_names, current_field_types,
                    configured_field_types, initial_fields, initial_types >>
    /\ UNCHANGED << clientVars, registryVars, recordVars >>

\* lines 136-143: one iteration of the loop over the fields listed
FieldsDelete ==
    /\ op = "configure_solr_fields"
    /\ pc = "delete"
    /\ LET field_name == current_fields[idx]
           deleting == /\ ~IsSpecialField(field_name)
                       /\ NotConfigured(field_name, configured_field_names)
           next == IF idx < Len(current_fields) THEN "delete" ELSE "return"
       IN  IF ~deleting
           THEN /\ idx' = idx + 1
                /\ pc' = next
                /\ UNCHANGED << remote_fields, stats, calls, outcome, last_run >>
           ELSE \E o \in MutationOutcomes :
                  LET fields == IF Applied(o)
                                THEN DeleteField(remote_fields, field_name)
                                ELSE remote_fields
                  IN  /\ stats' = StatsIncr(stats, "deleted")
                      /\ calls' = Append(calls, Call("delete_field", field_name, NoArgs, o))
                      /\ remote_fields' = fields
                      /\ IF Raises(o)
                         THEN /\ Raise(fields, remote_types)
                              /\ UNCHANGED idx
                         ELSE /\ idx' = idx + 1
                              /\ pc' = next
                              /\ UNCHANGED << outcome, last_run >>
    /\ UNCHANGED << cls_dict, remote_types, op, current_fields,
                    configured_field_names, current_field_types,
                    configured_field_types, initial_fields, initial_types >>
    /\ UNCHANGED << clientVars, registryVars, recordVars >>

\* line 145 (and line 196): return stats
ReturnStats ==
    /\ pc = "return"
    /\ pc' = "idle"
    /\ outcome' = "returned"
    /\ last_run' =
         << RunRecord(op, "returned", <<stats>>, remote_fields, remote_types) >>
    /\ UNCHANGED << cls_dict, remote_fields, remote_types, op, current_fields,
                    configured_field_names, current_field_types,
                    configured_field_types, idx, stats, calls, initial_fields, initial_types >>
    /\ UNCHANGED << clientVars, registryVars, recordVars >>

----------------------------------------------------------------------------
(* parasol/schema.py: SolrSchema.configure_solr_fieldtypes *)

\* {ftype['name']: ftype for ftype in ...}
KeyedOnName(types) ==
    [ n \in { types[k].name : k \in DOMAIN types } |->
        types[CHOOSE k \in DOMAIN types :
                 /\ types[k].name = n
                 /\ \A j \in DOMAIN types : types[j].name = n => j <= k] ]

\* the test that never finds the name
InCurrentTypesNever(field_type, current) == FALSE

\* the membership test with its sense inverted
InCurrentTypesInverted(field_type, current) == field_type \notin DOMAIN current

\* field_type in current_field_types
InCurrentTypes(field_type, current) == field_type \in DOMAIN current

\* the listing left as it was
DropListedNameOmitted(current, field_type) == current

\* lines 172-173: current_field_type_opts = current_field_types[field_type],
\* del current_field_type_opts['name']: the listed definition loses its name
DropListedName(current, field_type) ==
    [ current EXCEPT ![field_type] = DictDel(@, "name") ]

\* the early return left out
NoneConfiguredNever(configured) == FALSE

\* if not configured_field_types
NoneConfigured(configured) == Len(configured) = 0

\* lines 154-160: the classmethod is called; with nothing declared it returns at once
ConfigureSolrFieldTypes ==
    /\ pc = "idle"
    /\ op' = "configure_solr_fieldtypes"
    /\ configured_field_types' = GetFieldTypes(cls_dict)
    /\ stats' = NewStats
    /\ pc' = IF NoneConfigured(GetFieldTypes(cls_dict))
             THEN "return" ELSE "list_field_types"
    /\ calls' = <<>>
    /\ outcome' = "none"
    /\ idx' = 1
    /\ current_field_types' = <<>>
    /\ current_fields' = <<>>
    /\ configured_field_names' = <<>>
    /\ UNCHANGED << cls_dict, remote_fields, remote_types, last_run,
                    initial_fields, initial_types >>
    /\ UNCHANGED << clientVars, registryVars, recordVars >>

\* lines 163-164: list the remote field types, keyed on name
TypesList ==
    /\ op = "configure_solr_fieldtypes"
    /\ pc = "list_field_types"
    /\ \E o \in QueryOutcomes :
       /\ calls' = Append(calls, Call("list_field_types", NoName, NoArgs, o))
       /\ IF Raises(o)
          THEN /\ Raise(remote_fields, remote_types)
               /\ UNCHANGED << current_field_types, idx >>
          ELSE /\ current_field_types' = KeyedOnName(ListFieldTypes(remote_types))
               /\ idx' = 1
               /\ pc' = IF Len(configured_field_types) > 0
                        THEN "add_replace_type" ELSE "return"
               /\ UNCHANGED << outcome, last_run >>
    /\ UNCHANGED << cls_dict, remote_fields, remote_types, op, current_fields,
                    configured_field_names, configured_field_types, stats,
                    initial_fields, initial_types >>
    /\ UNCHANGED << clientVars, registryVars, recordVars >>

\* lines 166-189: one iteration of the loop over the declared field types
TypesAddReplace ==
    /\ op = "configure_solr_fieldtypes"
    /\ pc = "add_replace_type"
    /\ LET field_type == configured_field_types[idx]
           field_type_opts == DictSet(GetAttr(cls_dict, field_type), "name", field_type)
           replacing == InCurrentTypes(field_type, current_field_types)
       IN  \E o \in MutationOutcomes :
             LET applied == IF replacing
                            THEN ReplaceFieldType(remote_types, field_type_opts)
                            ELSE AddFieldType(remote_types, field_type_opts)
                 types == IF Applied(o) THEN applied ELSE remote_types
             IN  /\ current_field_types' =
                        IF replacing
                        THEN DropListedName(current_field_types, field_type)
                        ELSE current_field_types
                 /\ stats' = StatsIncr(stats,
                        IF replacing THEN "updated" ELSE "added")
                 /\ calls' = Append(calls,
                        Call(IF replacing THEN "replace_field_type"
                             ELSE "add_field_type", field_type, field_type_opts, o))
                 /\ remote_types' = types
                 /\ IF Raises(o)
                    THEN /\ Raise(remote_fields, types)
                         /\ UNCHANGED idx
                    ELSE /\ idx' = IF idx < Len(configured_field_types)
                                   THEN idx + 1 ELSE 1
                         /\ pc' = IF idx < Len(configured_field_types)
                                  THEN "add_replace_type" ELSE "return"
                         /\ UNCHANGED << outcome, last_run >>
    /\ UNCHANGED << cls_dict, remote_fields, op, current_fields,
                    configured_field_names, configured_field_types, initial_fields, initial_types >>
    /\ UNCHANGED << clientVars, registryVars, recordVars >>

----------------------------------------------------------------------------
(* parasol/solr/update.py: Update *)

\* an optional value: <<>> is None, <<v>> is the value v
None == <<>>
Some(v) == << v >>

\* the truth value Python gives an optional integer
Truthy(v) == v # None /\ v[1] # 0

\* client.build_url(client.update_handler), as path segments
UpdateUrl == << "solr", "core", "update" >>

\* Update.headers
UpdateHeaders == [ content_type |-> "application/json" ]

\* Update.__init__: self.params
NewParams(commit_within) == [ commitWithin |-> commit_within ]

\* Update.index, lines 15-22: the local params
IndexLocalParams(self_params, commit, commit_within) ==
    LET copied == self_params
        within == IF Truthy(commit_within)
                  THEN DictSet(copied, "commitWithin", commit_within)
                  ELSE copied
    IN  IF commit
        THEN DictSet(DictDel(within, "commitWithin"), "commit", TRUE)
        ELSE within

\* Update.index, line 28: the params handed to make_request
IndexRequestParams(self_params, local_params) == self_params

\* self.params shared with the local params, which index then rewrites
SelfParamsAliased(self_params, commit, commit_within) ==
    IndexLocalParams(self_params, commit, commit_within)

\* Update.index, line 15: self.params after the call; the local params are
\* a copy, and only the copy is rewritten
SelfParamsAfterIndex(self_params, commit, commit_within) == self_params

\* urljoin('%s/' % self.url, 'json/docs')
IndexUrl(url) == url \o << "json", "docs" >>

\* a call of client.make_request, with the call of Update that made it
Request(method, url, data, request_params, via, commit, commit_within) ==
    [ method |-> method, url |-> url, data |-> data, params |-> request_params,
      headers |-> UpdateHeaders,
      via |-> via, commit |-> commit, commit_within |-> commit_within ]

\* Update.index: the request it makes
IndexRequest(self_params, docs, commit, commit_within) ==
    Request("post", IndexUrl(UpdateUrl), docs,
            IndexRequestParams(self_params,
                IndexLocalParams(self_params, commit, commit_within)),
            "index", commit, commit_within)

\* Update._delete: the request it makes
DeleteRequest(self_params, del_obj, via) ==
    Request("post", UpdateUrl, [ delete |-> del_obj ], self_params,
            via, FALSE, None)

\* the index after the server has carried out a request: an indexed document
\* takes the place of the one with its id, a delete by id removes the
\* documents with the ids, a delete by the query *:* removes every document
ServerApply(docs, request) ==
    IF request.via = "index"
    THEN { d \in docs : \A k \in DOMAIN request.data : request.data[k].id # d.id }
           \cup Range(request.data)
    ELSE IF request.via = "delete_by_id"
    THEN { d \in docs : \A k \in DOMAIN request.data.delete :
                            request.data.delete[k] # d.id }
    ELSE {}

----------------------------------------------------------------------------
(* parasol/indexing.py: Indexable, as the specification and the tests of    *)
(* parasol/tests/test_indexing.py describe it                                *)

\* the id of the record alone
IndexIdBare(item) == item.id

\* Indexable.index_id: item type and id joined by a period
IndexId(item) == item.item_type \o << "." >> \o item.id

\* Indexable.index_data
IndexData(item) == [ id |-> IndexId(item), item_type |-> item.item_type ]

\* [i.index_data() for i in chunk]
IndexDataOf(chunk) == [ k \in DOMAIN chunk |-> IndexData(chunk[k]) ]

\* the last count reported, 0 when none was
LastReported(updates) == IF updates = <<>> THEN 0 ELSE updates[Len(updates)]

\* one update for each record indexed since the last report
ProgressPerRecord(updates, passed, total) ==
    IF passed
    THEN updates \o [ k \in 1..(total - LastReported(updates)) |->
                        LastReported(updates) + k ]
    ELSE updates

\* index_items: if progbar: progbar.update(count)
ProgressAfter(updates, passed, total) ==
    IF passed THEN Append(updates, total) ELSE updates

\* a chunk one item short
NextChunkShort(stream, done, size) ==
    SubSeq(stream, done + 1,
           IF done + size <= Len(stream) THEN done + size - 1 ELSE Len(stream))

\* the next chunk of the stream: at most size items from position done on
NextChunk(stream, done, size) ==
    SubSeq(stream, done + 1,
           IF done + size <= Len(stream) THEN done + size ELSE Len(stream))

----------------------------------------------------------------------------
(* Specification of field reconciliation *)

\* a schema class that declares fields only
FieldClasses ==
    { [ k \in DOMAIN names |-> [ name |-> names[k], attr |-> DeclaredField(names[k]) ] ] :
        names \in Arrangements(FieldPool, MaxDeclared) }

\* the field listings a server may start with
ServerFieldLists ==
    { [ k \in DOMAIN names |-> ServerField(names[k]) ] :
        names \in Arrangements(FieldPool, MaxRemote) }

InitLocals ==
    /\ op = "none"
    /\ pc = "idle"
    /\ current_fields = <<>>
    /\ configured_field_names = <<>>
    /\ current_field_types = <<>>
    /\ configured_field_types = <<>>
    /\ idx = 1
    /\ stats = NewStats
    /\ calls = <<>>
    /\ outcome = "none"
    /\ last_run = <<>>
    /\ set_attempt = <<>>

\* get_configuration is not under study: no class is registered
InitNoRegistry ==
    /\ subclasses = <<>>
    /\ config = <<>>

\* an empty index, and no record has been indexed or removed
InitRecords ==
    /\ solr_docs = {}
    /\ item_call = <<>>

\* an Update client that has made no request, and no indexing under way
InitIdleClient ==
    /\ params = NewParams(Some(1000))
    /\ requests = <<>>
    /\ items = <<>>
    /\ index_chunk_size = 1
    /\ progbar = FALSE
    /\ ipc = "idle"
    /\ consumed = 0
    /\ count = 0
    /\ progress = <<>>

InitClient ==
    /\ InitNoRegistry
    /\ InitRecords
    /\ InitIdleClient

InitFields ==
    /\ cls_dict \in FieldClasses
    /\ remote_fields \in ServerFieldLists
    /\ remote_types = <<>>
    /\ initial_fields = Range(FieldNamesOf(remote_fields))
    /\ initial_types = Range(remote_types)
    /\ InitLocals
    /\ InitClient

NextFields ==
    \/ ConfigureSolrFields
    \/ FieldsList
    \/ FieldsAddReplace
    \/ FieldsDelete
    \/ ReturnStats

SpecFields == InitFields /\ [][NextFields]_vars

----------------------------------------------------------------------------
(* Specification of field type reconciliation *)

\* a schema class that declares field types only
TypeClasses ==
    { [ k \in DOMAIN names |->
          [ name |-> names[k],
            attr |-> DeclaredType(names[k]) ] ] :
        names \in Arrangements(TypePool, MaxDeclared) }

\* the field type listings a server may start with
ServerTypeLists ==
    { [ k \in DOMAIN names |-> ServerType(names[k]) ] :
        names \in Arrangements(TypePool, MaxRemote) }

InitTypes ==
    /\ cls_dict \in TypeClasses
    /\ remote_fields = <<>>
    /\ remote_types \in ServerTypeLists
    /\ initial_fields = {}
    /\ initial_types = Range(remote_types)
    /\ InitLocals
    /\ InitClient

NextTypes ==
    \/ ConfigureSolrFieldTypes
    \/ TypesList
    \/ TypesAddReplace
    \/ ReturnStats

SpecTypes == InitTypes /\ [][NextTypes]_vars

----------------------------------------------------------------------------
(* Specification of a whole reconciliation: fields and field types *)

\* a schema class that declares fields and then field types
MixedClasses ==
    { [ k \in DOMAIN f |-> [ name |-> f[k], attr |-> DeclaredField(f[k]) ] ]
      \o [ k \in DOMAIN t |-> [ name |-> t[k], attr |-> DeclaredType(t[k]) ] ] :
        f \in SubSeqs(FieldOrder, MaxMixedFields),
        t \in SubSeqs(TypeOrder, MaxMixedTypes) }

InitReconcile ==
    /\ cls_dict \in MixedClasses
    /\ remote_fields \in { [ k \in DOMAIN f |-> ServerField(f[k]) ] :
                             f \in SubSeqs(FieldOrder, MaxMixedFields) }
    /\ remote_types \in { [ k \in DOMAIN t |-> ServerType(t[k]) ] :
                            t \in SubSeqs(TypeOrder, MaxMixedTypes) }
    /\ initial_fields = Range(FieldNamesOf(remote_fields))
    /\ initial_types = Range(remote_types)
    /\ InitLocals
    /\ InitClient

NextReconcile ==
    \/ ConfigureSolrFields
    \/ FieldsList
    \/ FieldsAddReplace
    \/ FieldsDelete
    \/ ConfigureSolrFieldTypes
    \/ TypesList
    \/ TypesAddReplace
    \/ ReturnStats

Spec == InitReconcile /\ [][NextReconcile]_vars

----------------------------------------------------------------------------
(* Specification of the update handler client *)

\* the records that are indexed
ItemPool ==
    { [ item_type |-> << "t", "h" >>, id |-> << "a" >> ],
      [ item_type |-> << "m" >>, id |-> << "1" >> ] }

\* the commit_within values a caller may pass, None among them
CommitWithinValues == { None, Some(0), Some(500), Some(1000) }

\* the document lists, id lists and queries a caller may pass
DocLists == { IndexDataOf(<< i >>) : i \in ItemPool }
IdLists == { << IndexId(i) >> : i \in ItemPool }
Queries == { "*:*" }

\* Update.index(docs, commit, commit_within)
UpdateIndex ==
    /\ Len(requests) < MaxRequests
    /\ \E docs \in DocLists, commit \in BOOLEAN, commit_within \in CommitWithinValues :
         LET request == IndexRequest(params, docs, commit, commit_within)
         IN  /\ requests' = Append(requests, request)
             /\ params' = SelfParamsAfterIndex(params, commit, commit_within)
             /\ solr_docs' = ServerApply(solr_docs, request)
    /\ UNCHANGED << items, index_chunk_size, progbar, ipc, consumed,
                    count, progress, item_call >>
    /\ UNCHANGED << schemaVars, registryVars >>

\* Update.delete_by_id(id_list)
UpdateDeleteById ==
    /\ Len(requests) < MaxRequests
    /\ \E id_list \in IdLists :
         LET request == DeleteRequest(params, id_list, "delete_by_id")
         IN  /\ requests' = Append(requests, request)
             /\ solr_docs' = ServerApply(solr_docs, request)
    /\ UNCHANGED << params, items, index_chunk_size, progbar, ipc, consumed,
                    count, progress, item_call >>
    /\ UNCHANGED << schemaVars, registryVars >>

\* Update.delete_by_query(query)
UpdateDeleteByQuery ==
    /\ Len(requests) < MaxRequests
    /\ \E query \in Queries :
         LET request == DeleteRequest(params, [ query |-> query ], "delete_by_query")
         IN  /\ requests' = Append(requests, request)
             /\ solr_docs' = ServerApply(solr_docs, request)
    /\ UNCHANGED << params, items, index_chunk_size, progbar, ipc, consumed,
                    count, progress, item_call >>
    /\ UNCHANGED << schemaVars, registryVars >>

\* no schema class, an empty server schema, no run
InitNoSchema ==
    /\ cls_dict = <<>>
    /\ remote_fields = <<>>
    /\ remote_types = <<>>
    /\ initial_fields = {}
    /\ initial_types = {}
    /\ InitLocals
    /\ InitRecords

InitUpdate ==
    /\ InitNoSchema
    /\ InitNoRegistry
    /\ \E commit_within \in CommitWithinValues : params = NewParams(commit_within)
    /\ requests = <<>>
    /\ items = <<>>
    /\ index_chunk_size = 1
    /\ progbar = FALSE
    /\ ipc = "idle"
    /\ consumed = 0
    /\ count = 0
    /\ progress = <<>>

NextUpdate ==
    \/ UpdateIndex
    \/ UpdateDeleteById
    \/ UpdateDeleteByQuery

SpecUpdate == InitUpdate /\ [][NextUpdate]_vars

----------------------------------------------------------------------------
(* Specification of bulk indexing *)

\* Indexable.index_items(items, progbar) is called
IndexItems ==
    /\ ipc = "idle"
    /\ ipc' = "chunk"
    /\ consumed' = 0
    /\ count' = 0
    /\ UNCHANGED << params, requests, items, index_chunk_size, progbar, progress >>
    /\ UNCHANGED << schemaVars, registryVars, recordVars >>

\* index_items: the next chunk is read, submitted and reported
IndexItemsChunk ==
    /\ ipc = "chunk"
    /\ LET chunk == NextChunk(items, consumed, index_chunk_size)
       IN  /\ chunk # <<>>
           /\ consumed' = consumed + Len(chunk)
           /\ requests' = Append(requests,
                             IndexRequest(params, IndexDataOf(chunk), FALSE, None))
           /\ params' = SelfParamsAfterIndex(params, FALSE, None)
           /\ \E o \in QueryOutcomes :
                IF Raises(o)
                THEN /\ ipc' = "raised"
                     /\ UNCHANGED << count, progress, solr_docs >>
                ELSE /\ ipc' = "chunk"
                     /\ count' = count + Len(chunk)
                     /\ progress' = ProgressAfter(progress, progbar, count + Len(chunk))
                     /\ solr_docs' = ServerApply(solr_docs, requests'[Len(requests')])
    /\ UNCHANGED << items, index_chunk_size, progbar, item_call >>
    /\ UNCHANGED << schemaVars, registryVars >>

\* index_items: the stream is exhausted, count is returned
IndexItemsReturn ==
    /\ ipc = "chunk"
    /\ NextChunk(items, consumed, index_chunk_size) = <<>>
    /\ ipc' = "returned"
    /\ UNCHANGED << params, requests, items, index_chunk_size, progbar,
                    consumed, count, progress >>
    /\ UNCHANGED << schemaVars, registryVars, recordVars >>

\* the streams a caller may pass
ItemStreams == UNION { [ 1..n -> ItemPool ] : n \in 0..MaxItems }

InitIndex ==
    /\ InitNoSchema
    /\ InitNoRegistry
    /\ params = NewParams(Some(1000))
    /\ requests = <<>>
    /\ items \in ItemStreams
    /\ index_chunk_size \in 1..MaxChunk
    /\ progbar \in BOOLEAN
    /\ ipc = "idle"
    /\ consumed = 0
    /\ count = 0
    /\ progress = <<>>

NextIndex ==
    \/ IndexItems
    \/ IndexItemsChunk
    \/ IndexItemsReturn

SpecIndex == InitIndex /\ [][NextIndex]_vars

----------------------------------------------------------------------------
(* Specification of indexing and removing single records *)

\* Indexable.index(): self.solr.update.index([self.index_data()])
ItemIndex ==
    /\ Len(requests) < MaxRequests
    /\ \E item \in ItemPool, o \in QueryOutcomes :
         LET request == IndexRequest(params, << IndexData(item) >>, FALSE, None)
         IN  /\ requests' = Append(requests, request)
             /\ params' = SelfParamsAfterIndex(params, FALSE, None)
             /\ solr_docs' = IF Raises(o) THEN solr_docs
                             ELSE ServerApply(solr_docs, request)
             /\ item_call' = << [ op |-> "index", item |-> item, reply |-> o ] >>
    /\ UNCHANGED << items, index_chunk_size, progbar, ipc, consumed,
                    count, progress >>
    /\ UNCHANGED << schemaVars, registryVars >>

\* Indexable.remove_from_index(): self.solr.update.delete_by_id([self.index_id()])
ItemRemove ==
    /\ Len(requests) < MaxRequests
    /\ \E item \in ItemPool, o \in QueryOutcomes :
         LET request == DeleteRequest(params, << IndexId(item) >>, "delete_by_id")
         IN  /\ requests' = Append(requests, request)
             /\ solr_docs' = IF Raises(o) THEN solr_docs
                             ELSE ServerApply(solr_docs, request)
             /\ item_call' = << [ op |-> "remove_from_index", item |-> item,
                                  reply |-> o ] >>
    /\ UNCHANGED << params, items, index_chunk_size, progbar, ipc, consumed,
                    count, progress >>
    /\ UNCHANGED << schemaVars, registryVars >>

NextRecord ==
    \/ ItemIndex
    \/ ItemRemove

SpecRecord == InitUpdate /\ [][NextRecord]_vars

----------------------------------------------------------------------------
(* Specification of the lookup of the schema configuration *)

\* SolrSchema.get_configuration() is called
CallGetConfiguration ==
    /\ config' = << GetConfiguration(subclasses) >>
    /\ UNCHANGED << subclasses, set_attempt >>
    /\ UNCHANGED << schemaVars, clientVars, recordVars >>

\* the schema classes a system may define: one that declares nothing, and
\* one for each field and each field type of the name pools
SchemaClasses ==
    { <<>> }
    \cup { << [ name |-> n, attr |-> DeclaredField(n) ] >> : n \in FieldPool }
    \cup { << [ name |-> t, attr |-> DeclaredType(t) ] >> : t \in TypePool }

\* the subclasses of SolrSchema that a system defines: none, one or several
InitRegistry ==
    /\ InitNoSchema
    /\ InitIdleClient
    /\ subclasses \in Arrangements(SchemaClasses, MaxSubclasses)
    /\ config = <<>>

NextRegistry == CallGetConfiguration

SpecRegistry == InitRegistry /\ [][NextRegistry]_vars

----------------------------------------------------------------------------
(* Specification of assignment to the descriptors of a schema class *)

\* the values a caller may try to assign
AssignedValues == { "text_general" }

\* between runs, obj.name = val for a declared name: the descriptor's __set__
DescriptorSet ==
    /\ pc = "idle"
    /\ \E k \in DOMAIN cls_dict, val \in AssignedValues :
         LET e == cls_dict[k]
             r == IF IsSolrField(e.attr) THEN SolrFieldSet(e.attr, val)
                  ELSE SolrFieldTypeSet(e.attr, val)
         IN  /\ cls_dict' = [ cls_dict EXCEPT ![k].attr = r.self ]
             /\ set_attempt' = << [ name |-> e.name, val |-> val,
                                    raised |-> r.raised ] >>
    /\ UNCHANGED << remote_fields, remote_types, op, pc, current_fields,
                    configured_field_names, current_field_types,
                    configured_field_types, idx, stats, calls, outcome,
                    last_run, initial_fields, initial_types >>
    /\ UNCHANGED << subclasses, config >>
    /\ UNCHANGED << clientVars, recordVars >>

\* a schema class of fields and field types, and a server with an empty schema
InitDescriptors ==
    /\ cls_dict \in MixedClasses
    /\ remote_fields = <<>>
    /\ remote_types = <<>>
    /\ initial_fields = {}
    /\ initial_types = {}
    /\ InitLocals
    /\ InitClient

NextDescriptors ==
    \/ DescriptorSet
    \/ ConfigureSolrFields
    \/ FieldsList
    \/ FieldsAddReplace
    \/ FieldsDelete
    \/ ConfigureSolrFieldTypes
    \/ TypesList
    \/ TypesAddReplace
    \/ ReturnStats

SpecDescriptors == InitDescriptors /\ [][NextDescriptors]_vars

----------------------------------------------------------------------------
(* Vocabulary of the properties *)

\* the names the schema class declares as fields
DeclaredFieldNames ==
    { cls_dict[k].name : k \in { j \in DOMAIN cls_dict :
                                   cls_dict[j].attr.kind = "SolrField" } }

\* the names the schema class declares as field types
DeclaredTypeNames ==
    { cls_dict[k].name : k \in { j \in DOMAIN cls_dict :
                                   cls_dict[j].attr.kind = "SolrFieldType" } }

\* the server's field names when the current run began: the server changes
\* only during runs
FieldsAtStart ==
    IF last_run = <<>> THEN initial_fields
    ELSE { f.name : f \in last_run[1].fields }

\* the server's field type definitions when the current run began
TypesAtStart ==
    IF last_run = <<>> THEN initial_types ELSE last_run[1].types

\* 'id', or a name that begins with an underscore
Protected(name) == name = <<"i","d">> \/ (name # <<>> /\ Head(name) = "_")

\* the calls of operation o in the current run
CallsOf(o) == { k \in DOMAIN calls : calls[k].op = o }

\* a run of configure_solr_fields has reached its return statement
FieldsReturning == op = "configure_solr_fields" /\ pc = "return"

\* a run of configure_solr_fieldtypes has reached its return statement
TypesReturning == op = "configure_solr_fieldtypes" /\ pc = "return"

----------------------------------------------------------------------------
(* Properties of configure_solr_fields *)

\* C1: when a run of configure_solr_fields completes, every declared field
\* name that was absent from the server at the start of the run has had
\* exactly one add_field call and no replace_field call, and stats.added is
\* the number of those names.
C1_AddPerAbsentName ==
    FieldsReturning =>
        LET absent == DeclaredFieldNames \ FieldsAtStart
        IN  /\ \A n \in absent :
                 /\ CountCalls(calls, "add_field", n) = 1
                 /\ CountCalls(calls, "replace_field", n) = 0
            /\ stats.added = Cardinality(absent)

\* a completed run that added two names and replaced another
C1_Witness ==
    /\ FieldsReturning
    /\ Cardinality(DeclaredFieldNames \ FieldsAtStart) = 2
    /\ Cardinality(DeclaredFieldNames \cap FieldsAtStart) = 1
    /\ stats.added = 2

\* C2: when a run of configure_solr_fields completes, every declared field
\* name that was present on the server at the start of the run has had exactly
\* one replace_field call and no add_field call, whatever the definition the
\* server held, and stats.replaced is the number of those names.
C2_ReplacePerPresentName ==
    FieldsReturning =>
        LET present == DeclaredFieldNames \cap FieldsAtStart
        IN  /\ \A n \in present :
                 /\ CountCalls(calls, "replace_field", n) = 1
                 /\ CountCalls(calls, "add_field", n) = 0
            /\ stats.replaced = Cardinality(present)

\* a completed second run: two names replaced that already hold the declared
\* definition, and one name added
C2_Witness ==
    /\ FieldsReturning
    /\ last_run # <<>>
    /\ stats.replaced = 2
    /\ stats.added = 1
    /\ \E f \in Range(remote_fields) :
         /\ f.name \in FieldsAtStart
         /\ f \in last_run[1].fields
         /\ CountCalls(calls, "replace_field", f.name) = 1

\* C3: no delete_field call is ever issued for 'id' or for a name that begins
\* with an underscore, declared or not; and when a run completes, a
\* delete_field call has been issued for every other name that was on the
\* server at the start of the run and is not declared, for no declared name,
\* and stats.deleted is the number of delete_field calls.
C3_DeleteUndeclaredUnprotected ==
    /\ \A k \in CallsOf("delete_field") : ~Protected(calls[k].name)
    /\ FieldsReturning =>
         /\ \A n \in FieldsAtStart \ DeclaredFieldNames :
              ~Protected(n) => CountCalls(calls, "delete_field", n) >= 1
         /\ \A k \in CallsOf("delete_field") :
              calls[k].name \in FieldsAtStart \ DeclaredFieldNames
         /\ stats.deleted = Cardinality(CallsOf("delete_field"))

\* a completed run that deleted a plain name and kept 'id' and an underscore
\* name, neither of them declared
C3_Witness ==
    /\ FieldsReturning
    /\ stats.deleted = 1
    /\ { <<"i","d">>, <<"_","v">> } \subseteq FieldsAtStart \ DeclaredFieldNames
    /\ { <<"i","d">>, <<"_","v">> } \subseteq Range(FieldNamesOf(remote_fields))

----------------------------------------------------------------------------
(* Properties of configure_solr_fieldtypes *)

\* C7: a run of configure_solr_fieldtypes on a schema that declares no field
\* type issues no remote call, not even the listing, raises nothing, leaves the
\* server's field types as they were and ends with every counter at zero.
C7_NoTypesNoCalls ==
    (op = "configure_solr_fieldtypes" /\ DeclaredTypeNames = {}) =>
        /\ calls = <<>>
        /\ stats = NewStats
        /\ pc \in { "return", "idle" }
        /\ outcome # "raised"
        /\ Range(remote_types) = TypesAtStart

\* such a run has returned, against a server that holds field types
C7_Witness ==
    /\ op = "configure_solr_fieldtypes"
    /\ DeclaredTypeNames = {}
    /\ outcome = "returned"
    /\ last_run[1].result = << NewStats >>
    /\ Cardinality(Range(remote_types)) = 2

\* C8: a run of configure_solr_fieldtypes issues only listings, adds and
\* replaces; a field type of the server that is not declared keeps its
\* definition; and when the run completes each declared field type has had
\* exactly one mutation, replace_field_type if its name was on the server at
\* the start of the run (counted in stats.updated) and add_field_type
\* otherwise (counted in stats.added).
C8_OneMutationPerTypeNoDelete ==
    op = "configure_solr_fieldtypes" =>
        /\ \A k \in DOMAIN calls :
             calls[k].op \in { "list_field_types", "add_field_type",
                               "replace_field_type" }
        /\ \A d \in TypesAtStart :
             d.name \notin DeclaredTypeNames => d \in Range(remote_types)
        /\ pc = "return" =>
             LET listed == { d.name : d \in TypesAtStart }
             IN  /\ \A n \in DeclaredTypeNames :
                      /\ CountCalls(calls, "replace_field_type", n)
                           = IF n \in listed THEN 1 ELSE 0
                      /\ CountCalls(calls, "add_field_type", n)
                           = IF n \in listed THEN 0 ELSE 1
                 /\ stats.updated = Cardinality(DeclaredTypeNames \cap listed)
                 /\ stats.added = Cardinality(DeclaredTypeNames \ listed)
                 /\ stats.deleted = 0

\* a completed run that added one field type, replaced one whose definition
\* on the server was already the declared one, and left a stale one alone
C8_Witness ==
    /\ TypesReturning
    /\ stats.updated = 1
    /\ stats.added = 1
    /\ \E d \in TypesAtStart :
         /\ d.name \in DeclaredTypeNames
         /\ d.class = "solr.TextField"
         /\ d \in Range(remote_types)
    /\ \E d \in TypesAtStart :
         /\ d.name \notin DeclaredTypeNames
         /\ d \in Range(remote_types)

----------------------------------------------------------------------------
(* Properties of both classmethods *)

\* the definition the server holds under a field name
RemoteFieldsNamed(name) == { f \in Range(remote_fields) : f.name = name }

\* the effect of the call at position k of the current run is in place
EffectInPlace(k) ==
    LET c == calls[k]
    IN  CASE c.op = "add_field" -> RemoteFieldsNamed(c.name) # {}
          [] c.op = "replace_field" ->
                \A f \in RemoteFieldsNamed(c.name) : f.type = c.kwargs.type
          [] c.op = "delete_field" -> RemoteFieldsNamed(c.name) = {}
          [] c.op = "add_field_type" ->
                \E t \in Range(remote_types) : t.name = c.name
          [] c.op = "replace_field_type" ->
                \A t \in Range(remote_types) :
                    t.name = c.name => t.class = c.kwargs.class
          [] OTHER -> TRUE

\* C9: a remote call that fails is the last call of its run: the run has
\* ended by raising at that call, no stats were returned, and the effect of
\* every call of the run that the server carried out is still in place.
C9_FailurePropagates ==
    /\ \A k \in DOMAIN calls :
         calls[k].reply # "ok" =>
            /\ k = Len(calls)
            /\ pc = "idle"
            /\ outcome = "raised"
            /\ last_run # <<>>
            /\ last_run[1].op = op
            /\ last_run[1].outcome = "raised"
            /\ last_run[1].result = <<>>
    /\ \A k \in DOMAIN calls :
         calls[k].reply \in { "ok", "applied_then_error" } => EffectInPlace(k)

\* a run that raised at a later call, after an add and a replace that the
\* server keeps
C9_Witness ==
    /\ outcome = "raised"
    /\ Len(calls) >= 4
    /\ calls[Len(calls)].reply = "error"
    /\ \E j, k \in DOMAIN calls :
         /\ calls[j].op = "add_field" /\ calls[j].reply = "ok"
         /\ calls[k].op = "replace_field" /\ calls[k].reply = "ok"
         /\ RemoteFieldsNamed(calls[j].name) # {}

\* C10: when a run of configure_solr_fields completes right after a run of it
\* that raised, the server's field names are the declared names together with
\* the names the server held originally that are 'id' or begin with an
\* underscore.
C10_RerunRecovers ==
    ( /\ FieldsReturning
      /\ last_run # <<>>
      /\ last_run[1].op = "configure_solr_fields"
      /\ last_run[1].outcome = "raised" ) =>
        Range(FieldNamesOf(remote_fields))
          = DeclaredFieldNames \cup { n \in initial_fields : Protected(n) }

\* such a re-run completes after a failed run that had left the schema partly
\* reconciled: no longer as it was, not yet as declared
C10_Witness ==
    /\ FieldsReturning
    /\ last_run # <<>>
    /\ last_run[1].op = "configure_solr_fields"
    /\ last_run[1].outcome = "raised"
    /\ { f.name : f \in last_run[1].fields } # initial_fields
    /\ { f.name : f \in last_run[1].fields } # Range(FieldNamesOf(remote_fields))
    /\ stats.deleted >= 1
    /\ stats.added >= 1

\* a run is returning right after a run of the same classmethod that returned
SecondRunReturning ==
    /\ pc = "return"
    /\ last_run # <<>>
    /\ last_run[1].op = op
    /\ last_run[1].outcome = "returned"

\* C5 as stated: the second of two successive runs returns the stats the first
\* returned, and leaves the set of remote field types as the first left it.
C5_SameStatsTwice ==
    SecondRunReturning =>
        /\ last_run[1].result = << stats >>
        /\ last_run[1].types = Range(remote_types)

\* C5 amended: the second of two successive runs leaves the remote fields and
\* field types as the first left them and adds and deletes nothing: it
\* replaces every declared field (or updates every declared field type), so
\* its stats are those of the first run exactly when the first run added and
\* deleted nothing.
C5_SecondRunReplacesOnly ==
    SecondRunReturning =>
        /\ last_run[1].types = Range(remote_types)
        /\ last_run[1].fields = Range(remote_fields)
        /\ stats.added = 0
        /\ stats.deleted = 0
        /\ stats.replaced = IF op = "configure_solr_fields"
                            THEN Cardinality(DeclaredFieldNames) ELSE 0
        /\ stats.updated = IF op = "configure_solr_fieldtypes"
                           THEN Cardinality(DeclaredTypeNames) ELSE 0
        /\ (last_run[1].result = << stats >>)
             <=> ( /\ last_run[1].result[1].added = 0
                   /\ last_run[1].result[1].deleted = 0 )

\* a second run returns stats that differ from those of the first, which had
\* added a field
C5_Witness ==
    /\ SecondRunReturning
    /\ op = "configure_solr_fields"
    /\ last_run[1].result[1].added = 1
    /\ last_run[1].result[1].replaced = 1
    /\ stats.replaced = 2

----------------------------------------------------------------------------
(* Properties of the update handler client *)

\* C4: every request that Update.index makes for a call with commit requested
\* carries commit and does not carry commitWithin.
C4_CommitExcludesCommitWithin ==
    \A k \in DOMAIN requests :
        (requests[k].via = "index" /\ requests[k].commit) =>
            /\ "commit" \in DOMAIN requests[k].params
            /\ "commitWithin" \notin DOMAIN requests[k].params

----------------------------------------------------------------------------
(* Properties of bulk indexing *)

\* the concatenation of a sequence of sequences
RECURSIVE Flatten(_)
Flatten(ss) == IF ss = <<>> THEN <<>> ELSE Head(ss) \o Flatten(Tail(ss))

\* the document lists submitted, in order
Batches == [ k \in DOMAIN requests |-> requests[k].data ]

\* C6: when index_items returns, it has made ceil(n/c) bulk index requests for
\* its n items and chunk size c, each with at least one and at most c
\* documents, the batches joined in the order submitted are the index_data()
\* of the items in stream order, and the count returned is n.
C6_ChunkedInOrder ==
    ipc = "returned" =>
        /\ Len(requests) = (Len(items) + index_chunk_size - 1) \div index_chunk_size
        /\ \A k \in DOMAIN requests :
             /\ requests[k].via = "index"
             /\ Len(requests[k].data) \in 1..index_chunk_size
        /\ Flatten(Batches) = IndexDataOf(items)
        /\ count = Len(items)

\* four items in chunks of three: a full chunk and a last chunk of one, with
\* two different records in the stream
C6_Witness ==
    /\ ipc = "returned"
    /\ Len(items) = 4
    /\ index_chunk_size = 3
    /\ Len(requests) = 2
    /\ Len(requests[2].data) = 1
    /\ items[1] # items[4]

----------------------------------------------------------------------------
(* Order of the calls of configure_solr_fields *)

\* the position at which the schema class declares a name
DeclaredAt(name) == CHOOSE k \in DOMAIN cls_dict : cls_dict[k].name = name

\* the position of a name in the listing the run took
ListedAt(name) == CHOOSE k \in DOMAIN current_fields : current_fields[k] = name

\* C11: in a run of configure_solr_fields the first call, and no other, is
\* list_fields; the add_field and replace_field calls follow in declaration
\* order and all precede the delete_field calls; the delete_field calls are
\* for names of the listing the run took, which is the server's field list as
\* the run found it, in the order of that listing; and no name added in the
\* run is deleted in it.
C11_ListOnceAddReplaceThenDelete ==
    op = "configure_solr_fields" =>
        /\ \A k \in DOMAIN calls : (calls[k].op = "list_fields") <=> (k = 1)
        /\ pc \notin { "idle", "list_fields" }
             => Range(current_fields) = FieldsAtStart
        /\ \A j, k \in DOMAIN calls :
             j < k =>
               /\ calls[j].op = "delete_field" => calls[k].op = "delete_field"
               /\ ( /\ calls[j].op \in { "add_field", "replace_field" }
                    /\ calls[k].op \in { "add_field", "replace_field" } )
                    => DeclaredAt(calls[j].name) < DeclaredAt(calls[k].name)
               /\ (calls[j].op = "delete_field" /\ calls[k].op = "delete_field")
                    => ListedAt(calls[j].name) < ListedAt(calls[k].name)
        /\ \A j, k \in DOMAIN calls :
             (calls[j].op = "add_field" /\ calls[k].op = "delete_field")
               => calls[j].name # calls[k].name
        /\ \A k \in CallsOf("delete_field") :
             calls[k].name \in Range(current_fields)

\* a completed run with an add and a replace, declared against the order of
\* the name pool, and then two deletes
C11_Witness ==
    /\ FieldsReturning
    /\ Len(calls) = 5
    /\ calls[2].op = "add_field" /\ calls[2].name = << "_", "v" >>
    /\ calls[3].op = "replace_field" /\ calls[3].name = << "i", "d" >>
    /\ calls[4].op = "delete_field" /\ calls[4].name = << "a", "_" >>
    /\ calls[5].op = "delete_field" /\ calls[5].name = << "t" >>

----------------------------------------------------------------------------
(* Properties of get_configuration *)

\* C12: get_configuration returns a schema class exactly when one schema
\* class exists, and then returns that class; with none or with several it
\* raises an exception that names the configuration fault, and returns none.
C12_OnlyTheSingleConfiguration ==
    config # <<>> =>
        /\ (config[1].kind = "returned") <=> (Len(subclasses) = 1)
        /\ config[1].kind = "returned" => config[1].value = subclasses[1]
        /\ Len(subclasses) # 1 =>
             /\ config[1].kind = "raised"
             /\ config[1].error = "Exception"
             /\ config[1].value = <<>>
        /\ Len(subclasses) = 0 =>
             config[1].message = "No Solr schema configuration found"
        /\ Len(subclasses) > 1 =>
             config[1].message =
                 "Currently only one Solr schema configuration is supported"

\* get_configuration was called with two schema classes defined
C12_Witness ==
    /\ config # <<>>
    /\ Len(subclasses) = 2
    /\ config[1].kind = "raised"

----------------------------------------------------------------------------
(* Properties of the descriptors *)

\* the descriptor the schema class was declared with under entry k
AsDeclared(k) ==
    IF cls_dict[k].attr.kind = "SolrField"
    THEN DeclaredField(cls_dict[k].name)
    ELSE DeclaredType(cls_dict[k].name)

\* C13: an assignment to a declared field or field type raises
\* AttributeError and leaves the descriptor as it was declared, so every
\* add or replace call of a later run carries the declared definition.
C13_DescriptorsReadOnly ==
    /\ set_attempt # <<>> => set_attempt[1].raised = "AttributeError"
    /\ \A k \in DOMAIN cls_dict : cls_dict[k].attr = AsDeclared(k)
    /\ \A k \in CallsOf("add_field") \cup CallsOf("replace_field") :
         calls[k].kwargs = SolrFieldGet(DeclaredField(calls[k].name))
    /\ \A k \in CallsOf("add_field_type") \cup CallsOf("replace_field_type") :
         calls[k].kwargs =
             DictSet(SolrFieldTypeGet(DeclaredType(calls[k].name)),
                     "name", calls[k].name)

\* after an assignment to a field was tried, a run has replaced that field
C13_Witness ==
    /\ set_attempt # <<>>
    /\ FieldsReturning
    /\ \E k \in CallsOf("replace_field") : calls[k].name = set_attempt[1].name

----------------------------------------------------------------------------
(* Properties of progress reporting *)

\* C14: when a progress bar is passed to index_items it is updated once for
\* each chunk submitted and accepted, each time with the count so far: a
\* completed call over n items in chunks of c has made as many updates as
\* index requests, that is ceil(n / c); without a progress bar none is made.
C14_OneUpdatePerChunk ==
    /\ ~progbar => progress = <<>>
    /\ (progbar /\ ipc \in { "chunk", "returned" }) =>
         /\ Len(progress) = Len(requests)
         /\ \A k \in DOMAIN progress :
              progress[k] = Len(Flatten(SubSeq(Batches, 1, k)))
    /\ (progbar /\ ipc = "returned") =>
         Len(progress) = (Len(items) + index_chunk_size - 1) \div index_chunk_size
    /\ (progbar /\ ipc = "raised") => Len(progress) = Len(requests) - 1

\* a completed call with a progress bar, four items in chunks of three:
\* two updates, the first for a chunk of more than one record
C14_Witness ==
    /\ progbar
    /\ ipc = "returned"
    /\ Len(items) = 4
    /\ index_chunk_size = 3
    /\ progress = << 3, 4 >>

----------------------------------------------------------------------------
(* Properties of indexing and removing single records *)

\* item type and id joined by a period
TypeDotId(item) == item.item_type \o << "." >> \o item.id

\* the request made last
LastRequest == requests[Len(requests)]

\* C15: a record's index() submits the one-document batch of its
\* index_data(), whose id is the item type and the record's id joined by a
\* period; its remove_from_index() makes a delete-by-id request for exactly
\* that id; an accepted index leaves a document with the id in the index and
\* an accepted remove leaves none.
C15_IndexThenRemoveById ==
    item_call # <<>> =>
        LET c == item_call[1]
        IN  /\ c.op = "index" =>
                 /\ LastRequest.via = "index"
                 /\ LastRequest.data =
                        << [ id |-> TypeDotId(c.item),
                             item_type |-> c.item.item_type ] >>
                 /\ ~Raises(c.reply) =>
                        \E d \in solr_docs : d.id = TypeDotId(c.item)
            /\ c.op = "remove_from_index" =>
                 /\ LastRequest.via = "delete_by_id"
                 /\ LastRequest.data = [ delete |-> << TypeDotId(c.item) >> ]
                 /\ ~Raises(c.reply) =>
                        \A d \in solr_docs : d.id # TypeDotId(c.item)

\* two records were indexed and then one of them removed: its document is
\* gone and the other one's is left
C15_Witness ==
    /\ item_call # <<>>
    /\ item_call[1].op = "remove_from_index"
    /\ ~Raises(item_call[1].reply)
    /\ Len(requests) = 3
    /\ requests[1].via = "index"
    /\ requests[1].data[1].id = TypeDotId(item_call[1].item)
    /\ Cardinality(solr_docs) = 1

----------------------------------------------------------------------------
(* Properties of the requests of Update.index *)

\* C16: every request that Update.index makes for a call with a commit_within
\* value passed, and commit not requested, carries commitWithin equal to the
\* value passed.
C16_PassedCommitWithinGoverns ==
    \A k \in DOMAIN requests :
        ( /\ requests[k].via = "index"
          /\ ~requests[k].commit
          /\ Truthy(requests[k].commit_within) ) =>
            /\ "commitWithin" \in DOMAIN requests[k].params
            /\ requests[k].params.commitWithin = requests[k].commit_within

----------------------------------------------------------------------------
(* Properties of the name key in configure_solr_fieldtypes *)

\* the definition a field type name is declared with, as getattr returns it
DeclaredTypeOpts(name) == SolrFieldTypeGet(DeclaredType(name))

\* C17 as stated: no replace_field_type call carries a name key, and
\* stats.updated counts the replace calls.
C17_ReplaceWithoutName ==
    op = "configure_solr_fieldtypes" =>
        /\ \A k \in CallsOf("replace_field_type") :
             "name" \notin DOMAIN calls[k].kwargs
        /\ stats.updated = Cardinality(CallsOf("replace_field_type"))

\* C17: every replace_field_type call carries the declared definition with
\* the name key set to the field type's name; the name key is taken off the
\* listed definition of each replaced name, and off no other listed
\* definition; stats.updated counts the replace calls.
C17_ReplaceCarriesName ==
    op = "configure_solr_fieldtypes" =>
        /\ \A k \in CallsOf("replace_field_type") :
             /\ "name" \in DOMAIN calls[k].kwargs
             /\ calls[k].kwargs.name = calls[k].name
             /\ calls[k].kwargs =
                    DictSet(DeclaredTypeOpts(calls[k].name), "name", calls[k].name)
             /\ calls[k].name \in DOMAIN current_field_types
             /\ "name" \notin DOMAIN current_field_types[calls[k].name]
        /\ \A n \in DOMAIN current_field_types :
             (\A k \in CallsOf("replace_field_type") : calls[k].name # n)
               => "name" \in DOMAIN current_field_types[n]
        /\ stats.updated = Cardinality(CallsOf("replace_field_type"))

\* a completed run that replaced two field types and left a listed one alone
C17_Witness ==
    /\ TypesReturning
    /\ Cardinality(CallsOf("replace_field_type")) = 2
    /\ stats.updated = 2
    /\ \E n \in DOMAIN current_field_types : "name" \in DOMAIN current_field_types[n]

----------------------------------------------------------------------------
(* Properties of the default parameters of the Update client *)

\* C18: no call of Update changes self.params, which holds commitWithin
\* alone, as given at construction; every delete request carries self.params.
C18_DefaultParamsNeverLeak ==
    [][ /\ params' = params
        /\ DOMAIN params' = { "commitWithin" }
        /\ \A k \in DOMAIN requests' :
             requests'[k].via \in { "delete_by_id", "delete_by_query" }
               => requests'[k].params = params ]_vars

\* an index call with commit, an index call with a commit_within other than
\* the default, and then a delete
C18_Witness ==
    /\ Len(requests) = 3
    /\ requests[1].via = "index" /\ requests[1].commit
    /\ requests[2].via = "index" /\ Truthy(requests[2].commit_within)
    /\ requests[2].commit_within # params.commitWithin
    /\ requests[3].via = "delete_by_query"
    /\ requests[3].params = params

====
